---- MODULE Spec2Model ----
(***************************************************************************)
(* The spreadsheet scripts of the repository as state machines.            *)
(*                                                                         *)
(* A workbook is a sequence of sheets; a sheet has a name, an ordered list *)
(* of column names and a sequence of rows; a row is a function from the    *)
(* sheet's column names to cell values.  A cell is NaN (an empty cell, as  *)
(* pandas reads it) or a string, written as a sequence of one-character    *)
(* strings so that strip(), lower() and substring search are computed.     *)
(* The join key cell holds an integer id, or NoId for an empty cell.       *)
(*                                                                         *)
(* A column name "<sheet>_<column>" (the scripts prefix every column with  *)
(* its sheet name) is the pair <<sheet, column>>; a name without an        *)
(* underscore, such as the join key, is the pair <<"", name>>.             *)
(***************************************************************************)
EXTENDS Integers, Sequences, FiniteSets, TLC

VARIABLES
    pc,                   \* "input", then the name of the script that ran
    workbook,             \* the input .xlsx: a sequence of sheets
    sheets_data,          \* create_final_output: sheet name -> cleaned table
    all_application_ids,  \* create_final_output: the ids of sheets_data
    excel_records,        \* create_final_output: the flat rows
    excel_df,             \* create_final_output: the table written to .xlsx
    json_records,         \* create_final_output: the nested records
    result_df,            \* consolidate_excel_tabs_by_columns: the join
    consolidated_df,      \* consolidate_excel_tabs: the concatenation
    df,                   \* remove_redundant_columns: the table read
    keep_join_key,        \* remove_redundant_columns: its argument
    constant_cols,        \* remove_redundant_columns: step 1's list
    columns_to_remove,    \* remove_redundant_columns: the set dropped
    df_cleaned,           \* remove_redundant_columns: the table written
    request,              \* server.py, test_server.py: self.path as received
    served,               \* server.py: self.path when do_GET serves the file
    test_served,          \* test_server.py: self.path when do_GET serves it
    applications,         \* create_summarized_applications: the input file
    summarized            \* create_summarized_applications: a summary per run

vars == <<pc, workbook, sheets_data, all_application_ids, excel_records, excel_df,
          json_records, result_df, consolidated_df, df, keep_join_key,
          constant_cols, columns_to_remove, df_cleaned,
          request, served, test_served, applications, summarized>>

\* The variables of the web server and of the summary script.
serverVars == <<request, served, test_served>>
summaryVars == <<applications, summarized>>

----------------------------------------------------------------------------
(* Bounds of the model. *)

\* The input workbook holds at most this many rows and dropped columns.
MaxInput == 3
\* server.py: a request path is made of at most this many pieces.
MaxPathTokens == 3
\* create_summarized_applications: the pieces of text and the team members of
\* the application, its team members alone, the words of a piece of text, and
\* the runs of the script on one input file.
MaxApplication == 4
MaxMembers == 1
WordsPerChunk == 25
MaxRuns == 2

\* create_summarized_applications: the About section is to stay below this
\* many words.
WordLimit == 100
\* remove_redundant_columns: rows and non-key columns of the table read.
MaxTableRows == 2
MaxTableCols == 2

----------------------------------------------------------------------------
(* Cell values. *)

\* An empty cell (pandas NaN): no string of characters equals it.
NaN == <<"NaN">>
\* Python's None, which convert_value and the scripts write for NaN.
None == <<"None">>
\* An empty join-key cell.
NoId == 0

\* The ApplicationIds of the input workbooks.
Ids == {1, 2}

Str_a == <<"a">>
Str_b == <<"b">>
Str_blank == <<" ", " ">>
Str_padded == <<" ", "a", " ">>
Str_2020 == <<"2", "0", "2", "0">>
Str_InvalidDate == <<"I", "n", "v", "a", "l", "i", "d", " ", "d", "a", "t", "e">>
Str_invalid == <<"i", "n", "v", "a", "l", "i", "d">>

\* str.lower() of one character
LowerChar(c) ==
    CASE c = "I" -> "i"
      [] c = "N" -> "n"
      [] c = "D" -> "d"
      [] c = "A" -> "a"
      [] c = "B" -> "b"
      [] c = "C" -> "c"
      [] c = "E" -> "e"
      [] c = "F" -> "f"
      [] c = "G" -> "g"
      [] c = "H" -> "h"
      [] c = "J" -> "j"
      [] c = "K" -> "k"
      [] c = "L" -> "l"
      [] c = "M" -> "m"
      [] c = "O" -> "o"
      [] c = "P" -> "p"
      [] c = "Q" -> "q"
      [] c = "R" -> "r"
      [] c = "S" -> "s"
      [] c = "T" -> "t"
      [] c = "U" -> "u"
      [] c = "V" -> "v"
      [] c = "W" -> "w"
      [] c = "X" -> "x"
      [] c = "Y" -> "y"
      [] c = "Z" -> "z"
      [] OTHER -> c

\* str.upper() of one character
UpperChar(c) ==
    CASE c = "a" -> "A"
      [] c = "b" -> "B"
      [] c = "c" -> "C"
      [] c = "d" -> "D"
      [] c = "e" -> "E"
      [] c = "f" -> "F"
      [] c = "g" -> "G"
      [] c = "h" -> "H"
      [] c = "i" -> "I"
      [] c = "j" -> "J"
      [] c = "k" -> "K"
      [] c = "l" -> "L"
      [] c = "m" -> "M"
      [] c = "n" -> "N"
      [] c = "o" -> "O"
      [] c = "p" -> "P"
      [] c = "q" -> "Q"
      [] c = "r" -> "R"
      [] c = "s" -> "S"
      [] c = "t" -> "T"
      [] c = "u" -> "U"
      [] c = "v" -> "V"
      [] c = "w" -> "W"
      [] c = "x" -> "X"
      [] c = "y" -> "Y"
      [] c = "z" -> "Z"
      [] OTHER -> c

Lower(s) == [i \in DOMAIN s |-> LowerChar(s[i])]

RECURSIVE LStrip(_)
LStrip(s) == IF s # <<>> /\ Head(s) = " " THEN LStrip(Tail(s)) ELSE s

RECURSIVE RStrip(_)
RStrip(s) ==
    IF s # <<>> /\ s[Len(s)] = " " THEN RStrip(SubSeq(s, 1, Len(s) - 1)) ELSE s

\* str.strip()
Strip(s) == RStrip(LStrip(s))

\* sub in s
Contains(s, sub) ==
    \E i \in 1..(Len(s) - Len(sub) + 1) : SubSeq(s, i, i + Len(sub) - 1) = sub

----------------------------------------------------------------------------
(* Sequences. *)

Range(s) == {s[i] : i \in DOMAIN s}

RECURSIVE FlattenSeq(_)
FlattenSeq(ss) == IF ss = <<>> THEN <<>> ELSE Head(ss) \o FlattenSeq(Tail(ss))

Count(s, x) == Cardinality({i \in DOMAIN s : s[i] = x})

Max(a, b) == IF a >= b THEN a ELSE b

\* f overridden and extended by g (dict.update)
Update(f, g) ==
    LET keys == DOMAIN g
    IN  [x \in DOMAIN f \cup keys |-> IF x \in keys THEN g[x] ELSE f[x]]

----------------------------------------------------------------------------
(* Sheets and columns. *)

join_key == "ApplicationId"

Stage1 == "Stage 1 Registration"
Stage2 == "Stage 2 Application"
TeamSheet == "Stage 2 A-Other Team Members"
AwardSheet == "Stage 2 A-Award Recognition"
MediaSheet == "Stage 2 A-Media Coverage & Pub"
\* A sheet none of the scripts names.
ExtraSheet == "Notes"

\* The join key as a column of a prefixed table.
KeyCol == <<"", join_key>>

COLUMNS_TO_RETAIN == <<
    <<"", join_key>>,
    <<Stage1, "Application Email">>,
    <<Stage1, "Name">>,
    <<Stage1, "Contact Number">>,
    <<Stage1, "Role">>,
    <<Stage1, "Institution Name">>,
    <<Stage1, "Venture Name">>,
    <<Stage1, "Website Link or Link to Social Media Handle">>,
    <<Stage2, "Startup/Company Legal Name">>,
    <<Stage2, "Startup/Company Popular (Brand) Name (if any)">>,
    <<Stage2, "Date of Incorporation">>,
    <<Stage2, "Company Registration Number (CIN/LLPIN)">>,
    <<Stage2, "Registered Address">>,
    <<Stage2, "DPIIT Certificate Number">>,
    <<Stage2, "Team Size (full-time equivalents)">>,
    <<Stage2, "Innovation Title">>,
    <<Stage2, "Technology Readiness Level (TRL)">>,
    <<Stage2, "Intellectual Property Status">>,
    <<Stage2, "Patent Details">>,
    <<Stage2, "Select the primary segment for your innovation: (Select only one)">>,
    <<Stage2, "Problem Clarity">>,
    <<Stage2, "Solution Strength">>,
    <<Stage2, "Innovation/Originality">>,
    <<Stage2, "Impact Potential">>,
    <<Stage2, "Scalability/Replicability">>,
    <<Stage2, "Execution Feasibility">>,
    <<Stage2, "Team Capacity">>,
    <<Stage2, "Intellectual Property">>,
    <<Stage2, "Are you funded by any VC/Angel/Govt?">>,
    <<Stage2, "Total Funding Raised">>,
    <<Stage2, "Lead Investors">>,
    <<Stage2, "Have you received any grants or institutional support?">>,
    <<Stage2, "Total Amount Received">>,
    <<Stage2, "Fund Source">>,
    <<Stage2, "Innovation/Product Demo Video">>,
    <<Stage2, "Link to high resolution video file">>,
    <<Stage2, "Presentation Deck (Max 15 slides)">>,
    <<Stage2, "Patent Documentation">>,
    <<Stage2, "Publications">>,
    <<Stage2, "Prototype Images/Videos">>,
    <<Stage2, "Team CVs (One single PDF)">>,
    <<Stage2, "Company Registration Certificate (for startups)">>,
    <<Stage2, "Equity holding pattern (Upload cap table showing Indian founders hold >51%).">>,
    <<TeamSheet, "Name">>,
    <<TeamSheet, "Gender">>,
    <<TeamSheet, "Date of Birth">>,
    <<TeamSheet, "Email">>,
    <<TeamSheet, "Mobile Number">>,
    <<TeamSheet, "Role">>,
    <<AwardSheet, "Award/Recognition">>,
    <<AwardSheet, "Awarding Body">>,
    <<AwardSheet, "Year">>,
    <<AwardSheet, "Details">>,
    <<MediaSheet, "Type">>,
    <<MediaSheet, "Website links">>,
    <<MediaSheet, "Year">>,
    <<MediaSheet, "Details">>
>>

ONE_TO_MANY_COLUMNS ==
    [team_members |->
        << <<TeamSheet, "Name">>, <<TeamSheet, "Gender">>,
           <<TeamSheet, "Date of Birth">>, <<TeamSheet, "Email">>,
           <<TeamSheet, "Mobile Number">>, <<TeamSheet, "Role">> >>,
     awards |->
        << <<AwardSheet, "Award/Recognition">>, <<AwardSheet, "Awarding Body">>,
           <<AwardSheet, "Year">>, <<AwardSheet, "Details">> >>,
     media_coverage |->
        << <<MediaSheet, "Type">>, <<MediaSheet, "Website links">>,
           <<MediaSheet, "Year">>, <<MediaSheet, "Details">> >>]

\* [col for col in COLUMNS_TO_RETAIN if col.startswith(sheet + '_')]
RetainedOf(sheet) == SelectSeq(COLUMNS_TO_RETAIN, LAMBDA c : c[1] = sheet)

\* The same as sets, for the five sheets the script names.
RetainedSet ==
    [s \in {Stage1, Stage2, TeamSheet, AwardSheet, MediaSheet} |->
        Range(RetainedOf(s))]

----------------------------------------------------------------------------
(* The input workbooks of the model. *)

\* The columns of each sheet as the workbook is first laid out.
SheetColumns(name) ==
    CASE name = Stage1 -> <<join_key, "Name">>
      [] name = Stage2 -> <<join_key, "Innovation Title">>
      [] name = TeamSheet ->
            <<join_key, "Name", "Gender", "Date of Birth", "Email",
              "Mobile Number", "Role">>
      [] name = AwardSheet ->
            <<join_key, "Award/Recognition", "Awarding Body", "Year", "Details">>
      [] name = MediaSheet ->
            <<join_key, "Type", "Website links", "Year", "Details">>
      [] OTHER -> <<join_key, "Comment">>

EmptySheet(name) == [name |-> name, columns |-> SheetColumns(name), rows |-> <<>>]

\* The cells a row of the sheet may hold besides NaN: at most one.
CellChoices(name) ==
    CASE name = Stage1 -> {<<"Name", Str_a>>, <<"Name", Str_b>>}
      [] name = Stage2 -> {<<"Innovation Title", Str_a>>}
      [] name = TeamSheet ->
            {<<"Name", NaN>>, <<"Name", Str_blank>>, <<"Name", Str_a>>,
             <<"Gender", Str_b>>}
      [] name = AwardSheet ->
            {<<"Year", Str_InvalidDate>>, <<"Award/Recognition", Str_a>>}
      [] name = MediaSheet ->
            {<<"Year", Str_InvalidDate>>, <<"Year", Str_2020>>,
             <<"Type", Str_padded>>}
      [] OTHER -> {<<"Comment", NaN>>}

\* The join-key cells a row of the sheet with this cell may hold.
IdChoices(name, cell) ==
    CASE name = TeamSheet /\ cell[2] = Str_a -> Ids \cup {NoId}
      [] name = ExtraSheet -> {2}
      [] name = Stage2 -> {1}
      [] OTHER -> Ids

\* The row over `columns` with join key `id` and the one cell `cell`.
MakeRow(columns, id, cell) ==
    [c \in Range(columns) |->
        IF c = join_key THEN id ELSE IF c = cell[1] THEN cell[2] ELSE NaN]

\* The columns a sheet of the input may lack.
Droppable ==
    {<<ExtraSheet, join_key>>, <<TeamSheet, "Role">>, <<AwardSheet, "Details">>,
     <<MediaSheet, "Year">>}

InputSize(wb) ==
    LET Size(i) == Len(wb[i].rows)
                   + (Len(SheetColumns(wb[i].name)) - Len(wb[i].columns))
        RECURSIVE Sum(_)
        Sum(i) == IF i = 0 THEN 0 ELSE Size(i) + Sum(i - 1)
    IN  Sum(Len(wb))

\* One more row at the end of sheet i.
AddRow(i, id, cell) ==
    /\ pc = "input"
    /\ id \in (IF join_key \in Range(workbook[i].columns)
                THEN IdChoices(workbook[i].name, cell) ELSE {NoId})
    /\ cell[1] \in Range(workbook[i].columns)
    /\ workbook' = [workbook EXCEPT
            ![i].rows = Append(@, MakeRow(workbook[i].columns, id, cell))]
    /\ UNCHANGED <<pc, sheets_data, all_application_ids, excel_records, excel_df,
                   json_records, result_df, consolidated_df, df, keep_join_key,
                   constant_cols, columns_to_remove, df_cleaned,
                   serverVars, summaryVars>>

\* Sheet i comes without column c.
DropColumn(i, c) ==
    /\ pc = "input"
    /\ workbook[i].rows = <<>>
    /\ <<workbook[i].name, c>> \in Droppable
    /\ c \in Range(workbook[i].columns)
    /\ workbook' = [workbook EXCEPT
            ![i].columns = SelectSeq(@, LAMBDA x : x # c)]
    /\ UNCHANGED <<pc, sheets_data, all_application_ids, excel_records, excel_df,
                   json_records, result_df, consolidated_df, df, keep_join_key,
                   constant_cols, columns_to_remove, df_cleaned,
                   serverVars, summaryVars>>

----------------------------------------------------------------------------
(* create_final_output.py *)

\* pd.isna(value) -> None; the model's cells hold no Timestamp.
convert_value(value) == IF value \in {NaN, None} THEN None ELSE value

\* Lines 137-149: the sheet has the join key (or a column renamed to it).
HasJoinKey(sheet) == join_key \in Range(sheet.columns)

\* f"{sheet_name}_{clean_col}", the join key left as it is.
PrefixedName(sheet_name, col) ==
    IF col = join_key THEN KeyCol ELSE <<sheet_name, col>>

\* The rows of a sheet under the new column names
PrefixRows(rows, names) ==
    [i \in DOMAIN rows |->
        [c \in names |-> rows[i][IF c = KeyCol THEN join_key ELSE c[2]]]]

\* df.rename(columns=rename_dict)
PrefixTable(sheet) ==
    [columns |-> [i \in DOMAIN sheet.columns |->
                    PrefixedName(sheet.name, sheet.columns[i])],
     rows |-> IF sheet.rows = <<>> THEN <<>>
              ELSE PrefixRows(sheet.rows,
                       {PrefixedName(sheet.name, x) : x \in Range(sheet.columns)})]

\* df[col].isna() | df[col].astype(str).str.strip().eq('')
IsEmptyCell(v) == v = NaN \/ Strip(v) = <<>>

\* ... | df[year_col].astype(str).str.contains('invalid', case=False, na=False)
IsEmptyYear(v) == IsEmptyCell(v) \/ Contains(Lower(v), Str_invalid)

\* all_empty_mask of the media-coverage sheet, for one row
MediaAllEmpty(row) ==
    /\ IsEmptyCell(row[<<MediaSheet, "Type">>])
    /\ IsEmptyCell(row[<<MediaSheet, "Website links">>])
    /\ IsEmptyCell(row[<<MediaSheet, "Details">>])
    /\ IsEmptyYear(row[<<MediaSheet, "Year">>])

\* The mask with the optional fields left out: not what the code does
TeamAllEmpty_required(row) ==
    /\ IsEmptyCell(row[<<TeamSheet, "Name">>])
    /\ IsEmptyCell(row[<<TeamSheet, "Email">>])
    /\ IsEmptyCell(row[<<TeamSheet, "Role">>])

\* all_empty_mask of the team-members sheet, for one row
TeamAllEmpty(row) ==
    /\ IsEmptyCell(row[<<TeamSheet, "Name">>])
    /\ IsEmptyCell(row[<<TeamSheet, "Email">>])
    /\ IsEmptyCell(row[<<TeamSheet, "Role">>])
    /\ \A c \in {<<TeamSheet, "Gender">>, <<TeamSheet, "Date of Birth">>,
                 <<TeamSheet, "Mobile Number">>} :
          c \in DOMAIN row => IsEmptyCell(row[c])

\* all_empty_mask of the award sheet, for one row
AwardAllEmpty(row) ==
    /\ IsEmptyCell(row[<<AwardSheet, "Award/Recognition">>])
    /\ IsEmptyCell(row[<<AwardSheet, "Awarding Body">>])
    /\ IsEmptyCell(row[<<AwardSheet, "Details">>])
    /\ IsEmptyYear(row[<<AwardSheet, "Year">>])

\* df[~all_empty_mask], with drop_duplicates() added: not what the code does
CleanTable_dedup(sheet_name, t) ==
    LET cols == Range(t.columns)
        Has(names) == \A n \in names : <<sheet_name, n>> \in cols
        Kept(i) ==
            /\ CASE sheet_name = MediaSheet /\ Has({"Type", "Website links", "Details", "Year"}) ->
                       ~MediaAllEmpty(t.rows[i])
                 [] sheet_name = TeamSheet /\ Has({"Name", "Email", "Role"}) ->
                       ~TeamAllEmpty(t.rows[i])
                 [] sheet_name = AwardSheet
                        /\ Has({"Award/Recognition", "Awarding Body", "Year", "Details"}) ->
                       ~AwardAllEmpty(t.rows[i])
                 [] OTHER -> TRUE
            /\ \A j \in 1..(i - 1) : t.rows[j] # t.rows[i]
        RECURSIVE Keep(_)
        Keep(i) == IF i > Len(t.rows) THEN <<>>
                   ELSE (IF Kept(i) THEN <<t.rows[i]>> ELSE <<>>) \o Keep(i + 1)
    IN  [columns |-> t.columns, rows |-> Keep(1)]

\* Lines 167-236: the rows of the sheet that are not "completely empty"
CleanTable(sheet_name, t) ==
    LET cols == Range(t.columns)
        Has(names) == \A n \in names : <<sheet_name, n>> \in cols
    IN  CASE sheet_name = MediaSheet /\ Has({"Type", "Website links", "Details", "Year"}) ->
               [t EXCEPT !.rows = SelectSeq(@, LAMBDA r : ~MediaAllEmpty(r))]
          [] sheet_name = TeamSheet /\ Has({"Name", "Email", "Role"}) ->
               [t EXCEPT !.rows = SelectSeq(@, LAMBDA r : ~TeamAllEmpty(r))]
          [] sheet_name = AwardSheet
                /\ Has({"Award/Recognition", "Awarding Body", "Year", "Details"}) ->
               [t EXCEPT !.rows = SelectSeq(@, LAMBDA r : ~AwardAllEmpty(r))]
          [] OTHER -> t

\* The loop of lines 131-239: sheets without the join key are skipped.
ReadSheets(wb) ==
    [n \in {wb[i].name : i \in {j \in DOMAIN wb : HasJoinKey(wb[j])}} |->
        LET i == CHOOSE j \in DOMAIN wb : wb[j].name = n
        IN  CleanTable(n, PrefixTable(wb[i]))]

\* The ids of every sheet but the first processed one: not what the code does
CollectIds_first(sd) ==
    IF DOMAIN sd = {} THEN {}
    ELSE LET n == CHOOSE m \in DOMAIN sd : TRUE
         IN  {r[KeyCol] : r \in Range(sd[n].rows)} \ {NoId}

\* Lines 242-244: df[join_key].dropna().unique() of every table
CollectIds(sd) ==
    UNION {{r[KeyCol] : r \in Range(sd[n].rows)} : n \in DOMAIN sd} \ {NoId}

\* sorted(all_application_ids)
RECURSIVE Sorted(_)
Sorted(S) ==
    IF S = {} THEN <<>>
    ELSE LET m == CHOOSE x \in S : \A y \in S : x <= y
         IN  <<m>> \o Sorted(S \ {m})

\* pd.DataFrame()
EmptyDataFrame == [columns |-> <<>>, rows |-> <<>>]

\* DataFrame.empty
IsEmptyDF(t) == t.rows = <<>> \/ t.columns = <<>>

\* sheets_data.get(name, pd.DataFrame())
GetSheet(sd, name) == IF name \in DOMAIN sd THEN sd[name] ELSE EmptyDataFrame

\* t[t[join_key] == app_id] if not t.empty else pd.DataFrame()
RowsOf(t, app_id) ==
    IF IsEmptyDF(t) THEN <<>>
    ELSE SelectSeq(t.rows, LAMBDA r : r[KeyCol] = app_id)

\* Lines 272-275 (and 361-366): the retained columns of the sheet read from
\* one row, None for a column the table lacks
RowFields(sheet_name, have, row) ==
    [c \in RetainedSet[sheet_name] |->
        convert_value(IF c \in have THEN row[c] ELSE None)]

\* The one-to-one fields of the last row: not what the code does
OneToOne_last(sd, sheet_name, app_id) ==
    LET t == GetSheet(sd, sheet_name)
        rows == RowsOf(t, app_id)
    IN  IF rows = <<>> THEN <<>>
        ELSE RowFields(sheet_name, Range(t.columns), rows[Len(rows)])

\* Lines 268-297 (and 357-390): the one-to-one fields of the first row
OneToOne(sd, sheet_name, app_id) ==
    LET t == GetSheet(sd, sheet_name)
        rows == RowsOf(t, app_id)
    IN  IF rows = <<>> THEN <<>>
        ELSE RowFields(sheet_name, Range(t.columns), rows[1])

\* The [None] of lines 305-307
NoItem == <<>>

\* The list without the placeholder: not what the code does
ItemList_bare(rows) == rows

\* Lines 305-307: the rows, or one placeholder when there is none
ItemList(rows) == IF rows = <<>> THEN <<NoItem>> ELSE rows

\* Lines 316-346: the retained columns of one child sheet in a flat record
ChildFields(sheet_name, item) ==
    [c \in RetainedSet[sheet_name] |->
        IF item = NoItem THEN None
        ELSE convert_value(IF c \in DOMAIN item THEN item[c] ELSE None)]

\* Lines 310-348: the three nested loops, a record for each combination
CartesianProduct(base_record, team_list, award_list, media_list) ==
    LET na == Len(award_list)
        nm == Len(media_list)
    IN  [k \in 1..(Len(team_list) * na * nm) |->
            LET ti == ((k - 1) \div (na * nm)) + 1
                ai == (((k - 1) \div nm) % na) + 1
                mi == ((k - 1) % nm) + 1
            IN  Update(Update(Update(base_record,
                    ChildFields(TeamSheet, team_list[ti])),
                    ChildFields(AwardSheet, award_list[ai])),
                    ChildFields(MediaSheet, media_list[mi]))]

\* Lines 264-348 for one app_id: the three nested loops
FlatRecords(sd, app_id) ==
    CartesianProduct(
        Update(Update((KeyCol :> app_id), OneToOne(sd, Stage1, app_id)),
               OneToOne(sd, Stage2, app_id)),
        ItemList(RowsOf(GetSheet(sd, TeamSheet), app_id)),
        ItemList(RowsOf(GetSheet(sd, AwardSheet), app_id)),
        ItemList(RowsOf(GetSheet(sd, MediaSheet), app_id)))

\* Line 435: an "invalid" Year shorter than this is no valid data.
InvalidYearLen == 20

\* Lines 397-401 (411-415, 425-431): one row as a nested entry
NestedEntry(t, columns, row) ==
    [k \in {c[2] : c \in Range(columns) \cap Range(t.columns)} |->
        convert_value(row[CHOOSE c \in Range(columns) : c[2] = k])]

\* Lines 402 and 416: any(v is not None for v in entry.values())
HasData(entry) == \E k \in DOMAIN entry : entry[k] # None

\* has_valid_data set by Type, Website links and Details only: not what the
\* code does
HasValidData_content(entry) ==
    \E k \in DOMAIN entry \ {"Year"} :
        /\ entry[k] # None
        /\ Strip(entry[k]) # <<>>

\* Lines 426-436: has_valid_data of a media-coverage entry
HasValidData(entry) ==
    \E k \in DOMAIN entry :
        /\ entry[k] # None
        /\ LET value_str == Strip(entry[k])
           IN  /\ value_str # <<>>
               /\ ~(/\ k = "Year"
                    /\ Contains(Lower(value_str), Str_invalid)
                    /\ Len(value_str) < InvalidYearLen)

\* The entries of every row of the table: not what the code does
NestedEntries_all(t, columns, app_id) ==
    [i \in DOMAIN t.rows |-> NestedEntry(t, columns, t.rows[i])]

\* Lines 394-401: the entries of the rows of app_id, in sheet order
NestedEntries(t, columns, app_id) ==
    LET rows == RowsOf(t, app_id)
    IN  [i \in DOMAIN rows |-> NestedEntry(t, columns, rows[i])]

\* Lines 354-444 for one app_id
JsonRecord(sd, app_id) ==
    LET Clean(sheet_name, o) ==
            [k \in {c[2] : c \in DOMAIN o} |-> o[<<sheet_name, k>>]]
        team_members_df == GetSheet(sd, TeamSheet)
        awards_df == GetSheet(sd, AwardSheet)
        media_df == GetSheet(sd, MediaSheet)
        one == Update(Update((join_key :> app_id),
                   Clean(Stage1, OneToOne(sd, Stage1, app_id))),
                   Clean(Stage2, OneToOne(sd, Stage2, app_id)))
        team == IF IsEmptyDF(team_members_df) THEN <<>>
                ELSE ("team_members" :>
                        SelectSeq(NestedEntries(team_members_df,
                                      ONE_TO_MANY_COLUMNS.team_members, app_id),
                                  HasData))
        awards == IF IsEmptyDF(awards_df) THEN <<>>
                  ELSE ("awards" :>
                          SelectSeq(NestedEntries(awards_df,
                                        ONE_TO_MANY_COLUMNS.awards, app_id),
                                    HasData))
        media == IF IsEmptyDF(media_df) THEN <<>>
                 ELSE ("media_coverage" :>
                         SelectSeq(NestedEntries(media_df,
                                       ONE_TO_MANY_COLUMNS.media_coverage, app_id),
                                   HasValidData))
    IN  Update(Update(Update(one, team), awards), media)

\* The names of COLUMNS_TO_RETAIN, as a set.
RetainedColumns == {COLUMNS_TO_RETAIN[i] : i \in DOMAIN COLUMNS_TO_RETAIN}

\* Line 447: pd.DataFrame(excel_records). The columns are the keys in the order
\* they first appear (a record's keys are inserted in the order of
\* COLUMNS_TO_RETAIN); a key a record lacks is NaN in its row.
RECURSIVE FirstAppearance(_, _, _)
FirstAppearance(records, columns, seen) ==
    IF records = <<>> THEN columns
    ELSE LET keys == DOMAIN Head(records)
             new == keys \ seen
         IN  FirstAppearance(Tail(records),
                 IF new = {} THEN columns
                 ELSE columns \o SelectSeq(COLUMNS_TO_RETAIN, LAMBDA c : c \in new),
                 seen \cup new)

DataFrame(records) ==
    LET columns == FirstAppearance(records, <<>>, {})
        have == UNION {DOMAIN records[i] : i \in DOMAIN records}
    IN  [columns |-> columns,
         rows |-> [i \in DOMAIN records |->
                     records[i] @@ [c \in have \ DOMAIN records[i] |-> NaN]]]

\* Lines 449-451 left out: not what the code does
FillMissing_nofill(t) == t

\* Lines 449-451: every column of COLUMNS_TO_RETAIN the table lacks is added,
\* holding None.
FillMissing(t) ==
    LET have == {t.columns[i] : i \in DOMAIN t.columns}
        lacks == RetainedColumns \ have
        missing == SelectSeq(COLUMNS_TO_RETAIN, LAMBDA c : c \in lacks)
    IN  [columns |-> t.columns \o missing,
         rows |-> LET nones == [c \in lacks |-> None]
                  IN  [i \in DOMAIN t.rows |-> t.rows[i] @@ nones]]

\* Line 454: excel_df[[col for col in COLUMNS_TO_RETAIN if col in excel_df.columns]]
Reorder(t) ==
    LET have == {t.columns[i] : i \in DOMAIN t.columns}
        columns == SelectSeq(COLUMNS_TO_RETAIN, LAMBDA c : c \in have)
        kept == have \cap RetainedColumns
    IN  [columns |-> columns,
         rows |-> IF kept = have THEN t.rows
                  ELSE [i \in DOMAIN t.rows |-> [c \in kept |-> t.rows[i][c]]]]

\* Lines 446-454: the table written to the .xlsx file
ExcelFrame(records) == Reorder(FillMissing(DataFrame(records)))

\* The ids in the order the set yields them, here descending: not what the code does
AppOrder_unsorted(ids) ==
    LET s == Sorted(ids) IN [i \in DOMAIN s |-> s[Len(s) + 1 - i]]

\* Lines 264 and 354: for app_id in sorted(all_application_ids)
AppOrder(ids) == Sorted(ids)

\* Lines 262-348: the flat records of the applications, in their order
FlatOutput(sd, order) ==
    FlattenSeq([i \in DOMAIN order |-> FlatRecords(sd, order[i])])

\* Lines 351-444: the nested records of the applications, in their order
JsonOutput(sd, order) == [i \in DOMAIN order |-> JsonRecord(sd, order[i])]

\* create_final_output(input_file)
create_final_output ==
    /\ pc = "input"
    /\ pc' = "create_final_output"
    /\ sheets_data' = ReadSheets(workbook)
    /\ all_application_ids' = CollectIds(sheets_data')
    /\ excel_records' = FlatOutput(sheets_data', AppOrder(all_application_ids'))
    /\ json_records' = JsonOutput(sheets_data', AppOrder(all_application_ids'))
    /\ excel_df' = ExcelFrame(excel_records')
    /\ UNCHANGED <<workbook, result_df, consolidated_df, df, keep_join_key,
                   constant_cols, columns_to_remove, df_cleaned,
                   serverVars, summaryVars>>

----------------------------------------------------------------------------
(* The specifications. *)

\* No request has been served by either handler.
NotServed == <<"not served">>

NoRequest ==
    /\ request = <<>>
    /\ served = NotServed
    /\ test_served = NotServed

\* No application has been summarized.
NoSummary ==
    /\ applications = <<>>
    /\ summarized = <<>>

\* The outputs before any script has run.
NoOutput ==
    /\ NoRequest
    /\ NoSummary
    /\ sheets_data = <<>>
    /\ all_application_ids = {}
    /\ excel_records = <<>>
    /\ excel_df = EmptyDataFrame
    /\ json_records = <<>>
    /\ result_df = EmptyDataFrame
    /\ consolidated_df = EmptyDataFrame
    /\ df = EmptyDataFrame
    /\ keep_join_key = TRUE
    /\ constant_cols = <<>>
    /\ columns_to_remove = {}
    /\ df_cleaned = EmptyDataFrame

\* create_final_output on any workbook with the six sheets.
Init ==
    /\ pc = "input"
    /\ workbook = <<EmptySheet(Stage1), EmptySheet(Stage2), EmptySheet(TeamSheet),
                    EmptySheet(AwardSheet), EmptySheet(MediaSheet),
                    EmptySheet(ExtraSheet)>>
    /\ NoOutput

\* The input file is any workbook within the bound.
BuildInput ==
    /\ pc = "input"
    /\ InputSize(workbook) < MaxInput
    /\ \/ \E i \in DOMAIN workbook, id \in Ids \cup {NoId} :
             \E cell \in CellChoices(workbook[i].name) : AddRow(i, id, cell)
       \/ \E i \in DOMAIN workbook :
             \E c \in Range(workbook[i].columns) : DropColumn(i, c)

Next ==
    \/ BuildInput
    \/ create_final_output

Spec == Init /\ [][Next]_vars

----------------------------------------------------------------------------
(* Properties of create_final_output. *)

FinalDone == pc = "create_final_output"

\* The rows of a sheet's cleaned table that carry app_id, in sheet order.
CleanedRows(sheet_name, app_id) ==
    IF sheet_name \in DOMAIN sheets_data
    THEN SelectSeq(sheets_data[sheet_name].rows, LAMBDA r : r[KeyCol] = app_id)
    ELSE <<>>

\* The ids that occur in a row some cleaned table still holds.
IdsAfterCleaning ==
    {id \in Ids : \E n \in DOMAIN sheets_data :
                     \E i \in DOMAIN sheets_data[n].rows :
                        sheets_data[n].rows[i][KeyCol] = id}

\* The ids that occur in any sheet of the input that has the join key.
IdsOfInput ==
    {id \in Ids : \E i \in DOMAIN workbook :
                     /\ join_key \in Range(workbook[i].columns)
                     /\ \E k \in DOMAIN workbook[i].rows :
                           workbook[i].rows[k][join_key] = id}

\* What a flat row shows of one child row: its retained columns, null for NaN
\* and for a column the sheet lacks.
ChildView(sheet_name, row) ==
    [c \in RetainedSet[sheet_name] |->
        IF c \in DOMAIN row /\ row[c] # NaN THEN row[c] ELSE None]

\* X': the child rows of app_id, or the single all-null placeholder.
ChildOptions(sheet_name, app_id) ==
    LET rows == CleanedRows(sheet_name, app_id)
    IN  IF rows = <<>> THEN <<[c \in RetainedSet[sheet_name] |-> None]>>
        ELSE [i \in DOMAIN rows |-> ChildView(sheet_name, rows[i])]

FlatRowsOf(app_id) == SelectSeq(excel_records, LAMBDA r : r[KeyCol] = app_id)

Restrict(f, S) == [x \in S |-> f[x]]

\* Each combination of an element of T, of A and of M is shown by as many
\* rows of F as the product T x A x M has it.
IsProduct(F, T, A, M) ==
    \A t \in Range(T), a \in Range(A), m \in Range(M) :
        Cardinality({k \in DOMAIN F :
            /\ Restrict(F[k], RetainedSet[TeamSheet]) = t
            /\ Restrict(F[k], RetainedSet[AwardSheet]) = a
            /\ Restrict(F[k], RetainedSet[MediaSheet]) = m})
        = Count(T, t) * Count(A, a) * Count(M, m)

\* C1: the flat rows of each application are the Cartesian product T' x A' x M'
\* of its cleaned team, award and media rows (a single all-null placeholder
\* standing for an empty list): each combination appears as often as the
\* product has it, which makes max(1,|T|) * max(1,|A|) * max(1,|M|) rows.
C1_FlatIsProduct ==
    FinalDone =>
        /\ \A k \in DOMAIN excel_records : excel_records[k][KeyCol] \in IdsAfterCleaning
        /\ \A app \in IdsAfterCleaning :
              /\ Len(FlatRowsOf(app)) = Max(1, Len(CleanedRows(TeamSheet, app)))
                                        * Max(1, Len(CleanedRows(AwardSheet, app)))
                                        * Max(1, Len(CleanedRows(MediaSheet, app)))
              /\ IsProduct(FlatRowsOf(app), ChildOptions(TeamSheet, app),
                           ChildOptions(AwardSheet, app), ChildOptions(MediaSheet, app))

\* C1's case: an application with two team rows, an award row and no media row.
C1_Witness ==
    /\ FinalDone
    /\ \E app \in IdsAfterCleaning :
          /\ Len(CleanedRows(TeamSheet, app)) = 2
          /\ Len(CleanedRows(AwardSheet, app)) = 1
          /\ Len(CleanedRows(MediaSheet, app)) = 0
          /\ Len(FlatRowsOf(app)) = 2

JsonIds == [i \in DOMAIN json_records |-> json_records[i][join_key]]

Ascending(s) == \A i, j \in DOMAIN s : i < j => s[i] < s[j]

\* C2 as stated: one JSON record per id that occurs in any sheet of the input
\* that has the join key, none twice, in ascending order.
C2_Original ==
    FinalDone => /\ Range(JsonIds) = IdsOfInput
                 /\ Ascending(JsonIds)

\* C2 as amended: one JSON record per id that occurs in a row the per-sheet
\* cleaning left in a sheet that has the join key, none twice, in ascending order.
C2_OneRecordPerCleanedId ==
    FinalDone => /\ Range(JsonIds) = IdsAfterCleaning
                 /\ Ascending(JsonIds)

\* C2's case: two records, for ids that come from two different sheets.
C2_Witness ==
    /\ FinalDone
    /\ Len(json_records) = 2
    /\ CleanedRows(TeamSheet, 1) # <<>> /\ CleanedRows(ExtraSheet, 1) = <<>>
    /\ CleanedRows(ExtraSheet, 2) # <<>> /\ CleanedRows(TeamSheet, 2) = <<>>

\* The nested array a record must hold for one child sheet: an entry per
\* cleaned row of the application with a non-null retained field, in sheet order.
ExpectedEntries(sheet_name, app_id) ==
    LET cols == IF sheet_name \in DOMAIN sheets_data
                THEN RetainedSet[sheet_name] \cap Range(sheets_data[sheet_name].columns)
                ELSE {}
        rows == SelectSeq(CleanedRows(sheet_name, app_id),
                          LAMBDA r : \E c \in cols : r[c] # NaN)
    IN  [i \in DOMAIN rows |->
            [k \in {c[2] : c \in cols} |->
                IF rows[i][<<sheet_name, k>>] = NaN THEN None
                ELSE rows[i][<<sheet_name, k>>]]]

\* C3: the team_members (awards) array of an application holds, in sheet order,
\* one entry for each cleaned team (award) row of that application that has a
\* non-null retained field, and nothing else.
C3_NestedArrays ==
    FinalDone =>
        \A i \in DOMAIN json_records :
            LET rec == json_records[i]
                Holds(key, sheet_name) ==
                    IF key \in DOMAIN rec
                    THEN rec[key] = ExpectedEntries(sheet_name, rec[join_key])
                    ELSE ExpectedEntries(sheet_name, rec[join_key]) = <<>>
            IN  /\ Holds("team_members", TeamSheet)
                /\ Holds("awards", AwardSheet)

\* C3's case: an application with two different team entries, in a workbook
\* whose team sheet also has a row of another application.
C3_Witness ==
    /\ FinalDone
    /\ \E i \in DOMAIN json_records :
          /\ "team_members" \in DOMAIN json_records[i]
          /\ Len(json_records[i]["team_members"]) = 2
          /\ json_records[i]["team_members"][1] # json_records[i]["team_members"][2]
          /\ \E id \in Ids : /\ id # json_records[i][join_key]
                             /\ CleanedRows(TeamSheet, id) # <<>>

\* The sheet of the input that has this name.
InputSheet(sheet_name) ==
    workbook[CHOOSE i \in DOMAIN workbook : workbook[i].name = sheet_name]

AsOftenAsBefore(after, before) ==
    \A r \in Range(after) : Count(after, r) = Count(before, r)

ArrayKeys == {"team_members", "awards", "media_coverage"}

\* C15 as stated: every JSON record has the keys team_members, awards and
\* media_coverage, each an array (empty when the application has no such rows).
C15_Original ==
    FinalDone =>
        \A i \in DOMAIN json_records :
            \A key \in ArrayKeys :
                /\ key \in DOMAIN json_records[i]
                /\ DOMAIN json_records[i][key] = 1..Len(json_records[i][key])

\* A cell of the table written that Excel shows as empty.
IsNull(v) == v \in {NaN, None}

\* The retained columns that no cleaned table of the run holds.
AbsentFromData ==
    RetainedColumns
        \ UNION {Range(sheets_data[n].columns) : n \in DOMAIN sheets_data}

\* C16: the table written to the .xlsx file has exactly the columns of
\* COLUMNS_TO_RETAIN, in that order, and one row per flat record with that
\* record's values; a retained column that the data lacks is there and is null
\* in every row.
C16_ExcelColumns ==
    FinalDone =>
        /\ excel_df.columns = COLUMNS_TO_RETAIN
        /\ DOMAIN excel_df.rows = DOMAIN excel_records
        /\ \A k \in DOMAIN excel_df.rows :
              /\ DOMAIN excel_df.rows[k] = RetainedColumns
              /\ \A c \in DOMAIN excel_records[k] :
                    excel_df.rows[k][c] = excel_records[k][c]
              /\ \A c \in RetainedColumns \ DOMAIN excel_records[k] :
                    IsNull(excel_df.rows[k][c])
        /\ \A c \in AbsentFromData :
              \A k \in DOMAIN excel_df.rows : IsNull(excel_df.rows[k][c])

\* C16's case: two rows written, a retained column that no flat record has, a
\* retained column that only one of the two records has, and a cell with a value.
C16_Witness ==
    /\ FinalDone
    /\ Len(excel_df.rows) = 2
    /\ \E c \in RetainedColumns :
          \A k \in DOMAIN excel_records : c \notin DOMAIN excel_records[k]
    /\ \E c \in RetainedColumns :
          /\ c \in DOMAIN excel_records[2] /\ c \notin DOMAIN excel_records[1]
    /\ \E c \in RetainedColumns \ {KeyCol} : ~IsNull(excel_df.rows[1][c])

\* The three sheets the cleaning looks at.
ChildSheets == {TeamSheet, AwardSheet, MediaSheet}

\* A field that counts as empty: missing, whitespace-only, or a Year that
\* contains 'invalid' in any case.
FieldEmpty(c, v) ==
    \/ v = NaN
    \/ \A i \in DOMAIN v : v[i] = " "
    \/ c[2] = "Year" /\ Contains(Lower(v), Str_invalid)

\* The row has a data field that is not empty. The data fields of a child
\* sheet are its columns of ONE_TO_MANY_COLUMNS, which are its retained columns.
HasNonEmptyField(row) ==
    \E c \in (DOMAIN row \cap RetainedColumns) \ {KeyCol} :
        ~FieldEmpty(c, row[c])

\* The rows with a non-empty field are the same before and after, and a sheet
\* that is no child sheet has all its rows.
OnlyEmptyRemoved(n, before, after) ==
    /\ SelectSeq(after, HasNonEmptyField) = SelectSeq(before, HasNonEmptyField)
    /\ n \notin ChildSheets => after = before

MediaContentFields == {"Type", "Website links", "Details"}

\* C20 as stated: an entry is in a media_coverage array only if one of its
\* Type, Website links or Details fields holds a value that is not blank; the
\* Year alone never makes a row eligible.
C20_Original ==
    FinalDone =>
        \A i \in DOMAIN json_records :
            "media_coverage" \in DOMAIN json_records[i] =>
                \A k \in DOMAIN json_records[i]["media_coverage"] :
                    LET item == json_records[i]["media_coverage"][k]
                    IN  \E f \in MediaContentFields \cap DOMAIN item :
                            /\ item[f] # None
                            /\ \E j \in DOMAIN item[f] : item[f][j] # " "

\* Every sheet of the workbook has the columns it is laid out with.
StandardWorkbook ==
    \A i \in DOMAIN workbook : workbook[i].columns = SheetColumns(workbook[i].name)

\* The length of a nested array of a record, 0 when the record lacks the key.
ArrayLen(rec, key) == IF key \in DOMAIN rec THEN Len(rec[key]) ELSE 0

OneToOneSheets == {Stage1, Stage2}

\* What the outputs show of a one-to-one field: the cell of the row, null for
\* NaN and for a column the sheet lacks.
FieldOf(row, c) == IF c \in DOMAIN row /\ row[c] # NaN THEN row[c] ELSE None

\* When the sheet has rows, every flat row of F and the record rec show each
\* retained field of the sheet as the first row has it.
ShowFirstRow(sheet_name, rows, F, rec) ==
    rows # <<>> =>
        \A c \in RetainedSet[sheet_name] :
            /\ \A k \in DOMAIN F : F[k][c] = FieldOf(rows[1], c)
            /\ rec[c[2]] = FieldOf(rows[1], c)

\* C23: when a one-to-one sheet has rows for an application, however many,
\* every one-to-one field of that sheet comes from the first of them in sheet
\* order, in every flat row and in the JSON record; the number of flat rows is
\* the product of the child rows alone and the application has one JSON record.
C23_FirstRowWins ==
    FinalDone =>
        \A app \in IdsAfterCleaning :
            /\ Count(JsonIds, app) = 1
            /\ Len(FlatRowsOf(app)) = Max(1, Len(CleanedRows(TeamSheet, app)))
                                      * Max(1, Len(CleanedRows(AwardSheet, app)))
                                      * Max(1, Len(CleanedRows(MediaSheet, app)))
            /\ \A sheet_name \in OneToOneSheets :
                  ShowFirstRow(sheet_name, CleanedRows(sheet_name, app),
                               FlatRowsOf(app),
                               json_records[CHOOSE i \in DOMAIN json_records :
                                               json_records[i][join_key] = app])

\* C23's case: two Stage 1 rows of one application with different names, and
\* one flat row and one JSON record that show the first name.
C23_Witness ==
    /\ FinalDone
    /\ \E app \in IdsAfterCleaning :
          LET rows == CleanedRows(Stage1, app)
          IN  /\ Len(rows) = 2
              /\ rows[1][<<Stage1, "Name">>] # rows[2][<<Stage1, "Name">>]
              /\ Len(FlatRowsOf(app)) = 1
              /\ FlatRowsOf(app)[1][<<Stage1, "Name">>] = rows[1][<<Stage1, "Name">>]
              /\ Len(json_records) = 1
              /\ json_records[1]["Name"] = rows[1][<<Stage1, "Name">>]

----------------------------------------------------------------------------
(* consolidate_excel_columns.py *)

\* how='left': the keys of the right table alone are lost; not what the code does
OuterMerge_left(left, right) ==
    LET rcols == SelectSeq(right.columns, LAMBDA c : c # KeyCol)
        allcols == Range(left.columns) \cup Range(rcols)
        RowsFor(i) ==
            LET R == SelectSeq(right.rows, LAMBDA r : r[KeyCol] = left.rows[i][KeyCol])
            IN  IF R = <<>>
                THEN <<[c \in allcols |->
                          IF c \in DOMAIN left.rows[i] THEN left.rows[i][c] ELSE NaN]>>
                ELSE [j \in DOMAIN R |->
                        [c \in allcols |->
                            IF c \in DOMAIN left.rows[i] THEN left.rows[i][c] ELSE R[j][c]]]
    IN  [columns |-> left.columns \o rcols,
         rows |-> FlattenSeq([i \in DOMAIN left.rows |-> RowsFor(i)])]

\* Line 96: left.merge(right, on=join_key, how='outer').  The keys of both
\* tables in sorted order, NaN last and matching NaN; for each key the rows of
\* the left table times the rows of the right one, the columns of a side that
\* has no row of the key left NaN.
OuterMerge(left, right) ==
    LET keys == {left.rows[i][KeyCol] : i \in DOMAIN left.rows}
                \cup {right.rows[i][KeyCol] : i \in DOMAIN right.rows}
        order == Sorted(keys \ {NoId}) \o (IF NoId \in keys THEN <<NoId>> ELSE <<>>)
        rcols == SelectSeq(right.columns, LAMBDA c : c # KeyCol)
        allcols == Range(left.columns) \cup Range(rcols)
        RowsFor(k) ==
            LET L == SelectSeq(left.rows, LAMBDA r : r[KeyCol] = k)
                R == SelectSeq(right.rows, LAMBDA r : r[KeyCol] = k)
            IN  IF L = <<>>
                THEN [j \in DOMAIN R |->
                        [c \in allcols |-> IF c \in DOMAIN R[j] THEN R[j][c] ELSE NaN]]
                ELSE IF R = <<>>
                THEN [i \in DOMAIN L |->
                        [c \in allcols |-> IF c \in DOMAIN L[i] THEN L[i][c] ELSE NaN]]
                ELSE [n \in 1..(Len(L) * Len(R)) |->
                        LET i == ((n - 1) \div Len(R)) + 1
                            j == ((n - 1) % Len(R)) + 1
                        IN  [c \in allcols |->
                                IF c \in DOMAIN L[i] THEN L[i][c] ELSE R[j][c]]]
    IN  [columns |-> left.columns \o rcols,
         rows |-> FlattenSeq([i \in DOMAIN order |-> RowsFor(order[i])])]

\* Lines 38-73: the prefixed tables of the sheets that have the join key
AllDataframes(wb) ==
    LET with == SelectSeq(wb, HasJoinKey)
    IN  [i \in DOMAIN with |-> PrefixTable(with[i])]

\* Lines 89-97: the first table merged with each of the others in turn
RECURSIVE MergeAll(_, _)
MergeAll(result, rest) ==
    IF rest = <<>> THEN result
    ELSE MergeAll(OuterMerge(result, Head(rest)), Tail(rest))

\* consolidate_excel_tabs_by_columns(input_file)
consolidate_excel_tabs_by_columns ==
    /\ pc = "input"
    /\ pc' = "consolidate_excel_tabs_by_columns"
    /\ LET all_dataframes == AllDataframes(workbook)
       IN  result_df' = IF all_dataframes = <<>> THEN EmptyDataFrame
                        ELSE MergeAll(Head(all_dataframes), Tail(all_dataframes))
    /\ UNCHANGED <<workbook, sheets_data, all_application_ids, excel_records, excel_df,
                   json_records, consolidated_df, df, keep_join_key,
                   constant_cols, columns_to_remove, df_cleaned,
                   serverVars, summaryVars>>

----------------------------------------------------------------------------
(* consolidate_excel.py *)

Source_Sheet == "Source_Sheet"

\* Line 39: df.insert(0, 'Source_Sheet', sheet_name)
InsertSourceSheet(sheet) ==
    [columns |-> <<Source_Sheet>> \o sheet.columns,
     rows |-> [i \in DOMAIN sheet.rows |->
                 Update(sheet.rows[i], (Source_Sheet :> sheet.name))]]

\* The column names of the frames in the order they first appear
RECURSIVE ColumnUnion(_, _)
ColumnUnion(seen, frames) ==
    IF frames = <<>> THEN seen
    ELSE ColumnUnion(
            seen \o SelectSeq(Head(frames).columns, LAMBDA c : c \notin Range(seen)),
            Tail(frames))

\* The frames from the last sheet to the first: not what the code does
Concat_reversed(frames) ==
    LET columns == ColumnUnion(<<>>, frames)
        Widen(r) == [c \in Range(columns) |-> IF c \in DOMAIN r THEN r[c] ELSE NaN]
    IN  [columns |-> columns,
         rows |-> FlattenSeq([i \in DOMAIN frames |->
                     [k \in DOMAIN frames[Len(frames) + 1 - i].rows |->
                         Widen(frames[Len(frames) + 1 - i].rows[k])]])]

\* Line 45: pd.concat(all_dataframes, ignore_index=True)
Concat(frames) ==
    LET columns == ColumnUnion(<<>>, frames)
        Widen(r) == [c \in Range(columns) |-> IF c \in DOMAIN r THEN r[c] ELSE NaN]
    IN  [columns |-> columns,
         rows |-> FlattenSeq([i \in DOMAIN frames |->
                     [k \in DOMAIN frames[i].rows |-> Widen(frames[i].rows[k])]])]

\* consolidate_excel_tabs(input_file)
consolidate_excel_tabs ==
    /\ pc = "input"
    /\ pc' = "consolidate_excel_tabs"
    /\ consolidated_df' =
          Concat([i \in DOMAIN workbook |-> InsertSourceSheet(workbook[i])])
    /\ UNCHANGED <<workbook, sheets_data, all_application_ids, excel_records, excel_df,
                   json_records, result_df, df, keep_join_key,
                   constant_cols, columns_to_remove, df_cleaned,
                   serverVars, summaryVars>>

\* The sheets of the workbooks the two consolidation scripts are run on.
TabNames == {Stage1, TeamSheet, ExtraSheet}

\* Either consolidation script on a workbook of three sheets, in any order.
InitTabs ==
    /\ pc = "input"
    /\ \E a, b, c \in TabNames :
          /\ {a, b, c} = TabNames
          /\ workbook = <<EmptySheet(a), EmptySheet(b), EmptySheet(c)>>
    /\ NoOutput

NextTabs ==
    \/ BuildInput
    \/ consolidate_excel_tabs_by_columns
    \/ consolidate_excel_tabs

SpecTabs == InitTabs /\ [][NextTabs]_vars

----------------------------------------------------------------------------
(* Properties of the two consolidation scripts. *)

JoinDone == pc = "consolidate_excel_tabs_by_columns"

ConcatDone == pc = "consolidate_excel_tabs"

\* The non-null ids of the rows of the join.
ResultIds == {result_df.rows[i][KeyCol] : i \in DOMAIN result_df.rows} \ {NoId}

\* The ids that occur in sheet i of the input (none when it lacks the join key).
IdsOfSheet(i) ==
    IF join_key \in Range(workbook[i].columns)
    THEN {workbook[i].rows[k][join_key] : k \in DOMAIN workbook[i].rows} \ {NoId}
    ELSE {}

C6_Original ==
    JoinDone =>
        \A id \in ResultIds :
            Cardinality({i \in DOMAIN result_df.rows : result_df.rows[i][KeyCol] = id}) = 1

\* The number of rows of the sheets before sheet i.
RECURSIVE RowsBefore(_)
RowsBefore(i) == IF i <= 1 THEN 0 ELSE RowsBefore(i - 1) + Len(workbook[i - 1].rows)

\* C7: the concatenation has as many rows as all sheets together, in sheet
\* order and then in-sheet order, each with Source_Sheet, the first column,
\* naming the sheet the row came from.
C7_ConcatKeepsRows ==
    ConcatDone =>
        /\ Len(consolidated_df.rows) = RowsBefore(Len(workbook) + 1)
        /\ consolidated_df.columns[1] = Source_Sheet
        /\ \A i \in DOMAIN workbook :
              \A k \in DOMAIN workbook[i].rows :
                  LET row == consolidated_df.rows[RowsBefore(i) + k]
                  IN  /\ row[Source_Sheet] = workbook[i].name
                      /\ \A c \in Range(workbook[i].columns) :
                            row[c] = workbook[i].rows[k][c]

\* C7's case: three rows from more than one sheet.
C7_Witness ==
    /\ ConcatDone
    /\ Len(consolidated_df.rows) = 3
    /\ consolidated_df.rows[1][Source_Sheet] # consolidated_df.rows[3][Source_Sheet]

----------------------------------------------------------------------------
(* remove_redundant_columns.py *)

\* The cells of column c, top to bottom.
Column(t, c) == [i \in DOMAIN t.rows |-> t.rows[i][c]]

\* len(df[col].unique()) <= 1, NaN counted as a value: not what the code does
IsConstant_strict(t, c) == Cardinality(Range(Column(t, c))) <= 1

\* Lines 46-47: len(df[col].dropna().unique()) <= 1
IsConstant(t, c) == Cardinality(Range(Column(t, c)) \ {NaN}) <= 1

\* constant_cols with the join key tested like any other column, whatever
\* keep_join_key says: not what the code does
ConstantCols_nokeep(t, keep) ==
    SelectSeq(t.columns, LAMBDA c : IsConstant(t, c))

\* Lines 41-49: constant_cols
ConstantCols(t, keep) ==
    SelectSeq(t.columns, LAMBDA c : ~(c = KeyCol /\ keep) /\ IsConstant(t, c))

\* df[col].fillna('')
FillNa(col) == [i \in DOMAIN col |-> IF col[i] = NaN THEN <<>> ELSE col[i]]

\* df[col1].equals(df[col2]) alone: not what the code does
ColumnsEqual_exact(t, col1, col2) == Column(t, col1) = Column(t, col2)

\* Lines 76 and 119: equal, or equal once NaN is filled with ''
ColumnsEqual(t, col1, col2) ==
    \/ Column(t, col1) = Column(t, col2)
    \/ FillNa(Column(t, col1)) = FillNa(Column(t, col2))

\* Lines 66-85: the columns removed as duplicates of a column to their left
RECURSIVE DuplicateScan(_, _, _, _)
DuplicateScan(t, i, checked_cols, removed) ==
    IF i > Len(t.columns) THEN removed
    ELSE LET col1 == t.columns[i]
             duplicates ==
                 {t.columns[j] : j \in {k \in (i + 1)..Len(t.columns) :
                     /\ t.columns[k] \notin checked_cols
                     /\ t.columns[k] # KeyCol
                     /\ ColumnsEqual(t, col1, t.columns[k])}}
         IN  IF col1 \in checked_cols \/ col1 = KeyCol
             THEN DuplicateScan(t, i + 1, checked_cols, removed)
             ELSE DuplicateScan(t, i + 1,
                      checked_cols \cup duplicates
                          \cup (IF duplicates # {} THEN {col1} ELSE {}),
                      removed \cup duplicates)

\* Lines 101-109: the columns of one base name, left to right
BaseNameGroup(t, base_name) ==
    SelectSeq(t.columns, LAMBDA c : c # KeyCol /\ c[1] # "" /\ c[2] = base_name)

\* All columns of a base name but the first, alike or not: not what the code does
SameBaseRemoved_always(t, removed) ==
    UNION {LET cols == BaseNameGroup(t, b)
           IN  {cols[k] : k \in 2..Len(cols)} \ removed :
           b \in {c[2] : c \in {x \in Range(t.columns) : x # KeyCol /\ x[1] # ""}}}

\* Lines 111-128: same_base_removed
SameBaseRemoved(t, removed) ==
    UNION {LET cols == BaseNameGroup(t, b)
           IN  IF Len(cols) > 1
                  /\ \A k \in 2..Len(cols) : ColumnsEqual(t, cols[1], cols[k])
               THEN {cols[k] : k \in 2..Len(cols)} \ removed
               ELSE {} :
           b \in {c[2] : c \in {x \in Range(t.columns) : x # KeyCol /\ x[1] # ""}}}

\* Line 150: df.drop(columns=...)
DropColumns(t, remove) ==
    LET columns == SelectSeq(t.columns, LAMBDA c : c \notin remove)
    IN  [columns |-> columns,
         rows |-> [i \in DOMAIN t.rows |-> [c \in Range(columns) |-> t.rows[i][c]]]]

\* remove_redundant_columns(input_file, keep_join_key=keep)
remove_redundant_columns(keep) ==
    /\ pc = "input"
    /\ pc' = "remove_redundant_columns"
    /\ keep_join_key' = keep
    /\ LET constant == ConstantCols(df, keep)
           step2 == DuplicateScan(df, 1, {}, Range(constant))
           step3 == step2 \cup SameBaseRemoved(df, step2)
       IN  /\ constant_cols' = constant
           /\ columns_to_remove' = step3
           /\ df_cleaned' = DropColumns(df, step3)
    /\ UNCHANGED <<workbook, sheets_data, all_application_ids, excel_records, excel_df,
                   json_records, result_df, consolidated_df, df,
                   serverVars, summaryVars>>

\* The column names of the tables the script is run on.
TableColumnNames == {<<Stage1, "Name">>, <<TeamSheet, "Name">>, <<TeamSheet, "Role">>}

\* The cells of those columns.
TableCells == {NaN, <<>>, Str_a}

\* One more column at the right of the table read.
AddColumn(name, cells) ==
    /\ pc = "input"
    /\ Len(df.columns) <= MaxTableCols
    /\ name \notin Range(df.columns)
    /\ df' = [columns |-> Append(df.columns, name),
              rows |-> [i \in DOMAIN df.rows |-> Update(df.rows[i], (name :> cells[i]))]]
    /\ UNCHANGED <<pc, workbook, sheets_data, all_application_ids, excel_records, excel_df,
                   json_records, result_df, consolidated_df, keep_join_key,
                   constant_cols, columns_to_remove, df_cleaned,
                   serverVars, summaryVars>>

\* The join key of row i of the table read: two rows per application, as the
\* join of a one-to-many sheet gives.  The ids of a table are strings, so that
\* another column can hold the very values of the join key.
TableId(i) == IF (i + 1) \div 2 = 1 THEN Str_a ELSE Str_b

\* remove_redundant_columns on any table with the join key.
InitTable ==
    /\ pc = "input"
    /\ workbook = <<>>
    /\ sheets_data = <<>>
    /\ all_application_ids = {}
    /\ excel_records = <<>>
    /\ excel_df = EmptyDataFrame
    /\ json_records = <<>>
    /\ result_df = EmptyDataFrame
    /\ consolidated_df = EmptyDataFrame
    /\ keep_join_key = TRUE
    /\ df = [columns |-> <<KeyCol>>,
             rows |-> [i \in 1..MaxTableRows |-> (KeyCol :> TableId(i))]]
    /\ constant_cols = <<>>
    /\ columns_to_remove = {}
    /\ df_cleaned = EmptyDataFrame
    /\ NoRequest
    /\ NoSummary

NextTable ==
    \/ \E name \in TableColumnNames, cells \in [1..MaxTableRows -> TableCells] :
          AddColumn(name, cells)
    \/ \E keep \in BOOLEAN : remove_redundant_columns(keep)

SpecTable == InitTable /\ [][NextTable]_vars

----------------------------------------------------------------------------
(* Properties of remove_redundant_columns. *)

TableDone == pc = "remove_redundant_columns"

NonKeyColumns == Range(df.columns) \ {KeyCol}

\* The cells of a column of the table read.
CellsOf(c) == {df.rows[i][c] : i \in DOMAIN df.rows}

\* Column c is in the table written.
InOutput(c) == c \in Range(df_cleaned.columns)

\* The position of a column in the table read.
PositionOf(c) == CHOOSE i \in DOMAIN df.columns : df.columns[i] = c

\* Two columns hold the same values, an empty cell read as an empty string.
SameValues(c, d) ==
    \A i \in DOMAIN df.rows :
        (IF df.rows[i][c] = NaN THEN <<>> ELSE df.rows[i][c])
        = (IF df.rows[i][d] = NaN THEN <<>> ELSE df.rows[i][d])

C9_Original ==
    TableDone =>
        \A c \in NonKeyColumns :
            LET group == {d \in NonKeyColumns : Column(df, d) = Column(df, c)}
                first == CHOOSE d \in group :
                            \A e \in group : PositionOf(d) <= PositionOf(e)
            IN  Cardinality(group) >= 2 =>
                    \A d \in group : InOutput(d) <=> d = first

\* C9 as amended: of every group of non-key columns with identical values, an
\* empty cell counting as equal to an empty string, all columns but the leftmost
\* are removed, and the leftmost is in the output unless it is removed as a
\* constant column.
C9_DuplicatesButFirstRemoved ==
    TableDone =>
        \A c \in NonKeyColumns :
            LET group == {d \in NonKeyColumns : SameValues(c, d)}
                first == CHOOSE d \in group :
                            \A e \in group : PositionOf(d) <= PositionOf(e)
            IN  Cardinality(group) >= 2 =>
                    /\ \A d \in group \ {first} : ~InOutput(d)
                    /\ InOutput(first) <=> first \notin Range(constant_cols)

\* C9's case: two columns that are not constant and differ only by an empty
\* cell against an empty string; the left one is kept, the right one removed.
C9_Witness ==
    /\ TableDone
    /\ \E c, d \in NonKeyColumns :
          /\ PositionOf(c) < PositionOf(d)
          /\ SameValues(c, d)
          /\ Column(df, c) # Column(df, d)
          /\ c \notin Range(constant_cols)
          /\ InOutput(c)
          /\ ~InOutput(d)

\* The non-key columns "<sheet>_<base>" that share a base name.
BaseGroupOf(base_name) ==
    {c \in NonKeyColumns : c[1] # "" /\ c[2] = base_name}

BaseNames == {c[2] : c \in {x \in NonKeyColumns : x[1] # ""}}

C11_JoinKeyAndRowsKept ==
    (TableDone /\ keep_join_key) =>
        /\ InOutput(KeyCol)
        /\ DOMAIN df_cleaned.rows = DOMAIN df.rows
        /\ \A i \in DOMAIN df.rows :
              \A c \in Range(df_cleaned.columns) :
                  df_cleaned.rows[i][c] = df.rows[i][c]
        /\ df_cleaned.columns = SelectSeq(df.columns, InOutput)

\* C11's case: the join key is constant and another column holds the same
\* values; that column is removed, the join key is kept, and a column that
\* survives stands to the right of the removed one.
C11_Witness ==
    /\ TableDone
    /\ keep_join_key
    /\ Cardinality(CellsOf(KeyCol)) = 1
    /\ InOutput(KeyCol)
    /\ \E c, d \in NonKeyColumns :
          /\ Column(df, c) = Column(df, KeyCol)
          /\ ~InOutput(c)
          /\ PositionOf(c) < PositionOf(d)
          /\ InOutput(d)

----------------------------------------------------------------------------
(* server.py and test_server.py *)

\* str.startswith and str.endswith
StartsWith(s, prefix) ==
    Len(s) >= Len(prefix) /\ SubSeq(s, 1, Len(prefix)) = prefix

EndsWith(s, suffix) ==
    Len(s) >= Len(suffix) /\ SubSeq(s, Len(s) - Len(suffix) + 1, Len(s)) = suffix

\* str.replace(old, new): every occurrence of old, found left to right
RECURSIVE Replace(_, _, _)
Replace(s, old, new) ==
    IF s = <<>> THEN <<>>
    ELSE IF StartsWith(s, old)
         THEN new \o Replace(SubSeq(s, Len(old) + 1, Len(s)), old, new)
         ELSE <<Head(s)>> \o Replace(Tail(s), old, new)

\* urlparse(self.path).path for a request target without scheme, host or
\* parameters: what stands before the query and the fragment
RECURSIVE UrlPath(_)
UrlPath(url) ==
    IF url = <<>> \/ Head(url) \in {"?", "#"} THEN <<>>
    ELSE <<Head(url)>> \o UrlPath(Tail(url))

\* The percent escapes of the model's requests and the characters they stand for.
PercentCodes == (<<"0", "A">> :> "\n") @@ (<<"2", "F">> :> "/")

\* urllib.parse.unquote: every %XX escape replaced by its character
RECURSIVE unquote(_)
unquote(s) ==
    IF s = <<>> THEN <<>>
    ELSE IF Head(s) = "%" /\ Len(s) >= 3 /\ <<s[2], s[3]>> \in DOMAIN PercentCodes
         THEN <<PercentCodes[<<s[2], s[3]>>]>> \o unquote(SubSeq(s, 4, Len(s)))
         ELSE <<Head(s)>> \o unquote(Tail(s))

\* Line 37
static_extensions ==
    <<<<".", "j", "s">>,
      <<".", "c", "s", "s">>,
      <<".", "j", "s", "o", "n">>,
      <<".", "p", "n", "g">>,
      <<".", "j", "p", "g">>,
      <<".", "j", "p", "e", "g">>,
      <<".", "g", "i", "f">>,
      <<".", "s", "v", "g">>,
      <<".", "i", "c", "o">>,
      <<".", "w", "o", "f", "f">>,
      <<".", "w", "o", "f", "f", "2">>,
      <<".", "t", "t", "f">>,
      <<".", "e", "o", "t">>>>

\* Line 38
is_static_asset(path) ==
    \E i \in DOMAIN static_extensions : EndsWith(Lower(path), static_extensions[i])

Path_allapplications == <<"/", "a", "l", "l", "a", "p", "p", "l", "i", "c", "a", "t", "i", "o", "n", "s">>
Path_allapplications_dir == Path_allapplications \o <<"/">>
Path_allapplications_html ==
    Path_allapplications \o <<".", "h", "t", "m", "l">>
Path_index_html == <<"/", "i", "n", "d", "e", "x", ".", "h", "t", "m", "l">>
Path_BHAR == <<"/", "B", "H", "A", "R", "-">>

\* The characters of the class [A-Z0-9]
IdChars ==
    {"A", "B", "C", "D", "E", "F", "G", "H", "I", "J", "K", "L", "M", "N", "O",
     "P", "Q", "R", "S", "T", "U", "V", "W", "X", "Y", "Z",
     "0", "1", "2", "3", "4", "5", "6", "7", "8", "9"}

\* The pattern with * in the place of +: not what the code does
application_id_pattern_star(path) ==
    LET body == IF path # <<>> /\ path[Len(path)] = "\n"
                THEN SubSeq(path, 1, Len(path) - 1)
                ELSE path
    IN  /\ StartsWith(body, Path_BHAR)
        /\ \A i \in (Len(Path_BHAR) + 1)..Len(body) : body[i] \in IdChars

\* Lines 55 and 64: re.compile(r'^/BHAR-[A-Z0-9]+$').match(path).  Python's $
\* matches at the end of the string and also before a newline that ends it.
application_id_pattern(path) ==
    LET body == IF path # <<>> /\ path[Len(path)] = "\n"
                THEN SubSeq(path, 1, Len(path) - 1)
                ELSE path
    IN  /\ StartsWith(body, Path_BHAR)
        /\ Len(body) > Len(Path_BHAR)
        /\ \A i \in (Len(Path_BHAR) + 1)..Len(body) : body[i] \in IdChars

\* Lines 33-34 and test_server.py lines 10-11: the decoded path of a request
DecodedPath(self_path) == unquote(UrlPath(self_path))

\* Lines 57-70 without the branch of line 60, so that only the two exact paths
\* go to allapplications.html: not what the code does
CleanUrl_exact(self_path, path) ==
    IF path = Path_allapplications \/ path = Path_allapplications_dir
    THEN Path_allapplications_html
    ELSE IF application_id_pattern(path) THEN Path_index_html
    ELSE IF path = <<"/">> \/ path = <<>> THEN Path_index_html
    ELSE self_path

\* Lines 57-70: self.path of a request that is no static asset
CleanUrl(self_path, path) ==
    IF path = Path_allapplications \/ path = Path_allapplications_dir
    THEN Path_allapplications_html
    ELSE IF StartsWith(path, Path_allapplications_dir) THEN Path_allapplications_html
    ELSE IF application_id_pattern(path) THEN Path_index_html
    ELSE IF path = <<"/">> \/ path = <<>> THEN Path_index_html
    ELSE self_path

\* Lines 40-49: self.path of a request for a static asset
StaticAsset(self_path, path) ==
    IF StartsWith(path, Path_allapplications_dir)
    THEN Replace(path, Path_allapplications_dir, <<"/">>)
    ELSE self_path

\* Lines 26-88: self.path when MyHTTPRequestHandler.do_GET calls super().do_GET()
ServerPath(self_path) ==
    LET path == DecodedPath(self_path)
    IN  IF is_static_asset(path)
        THEN StaticAsset(self_path, path)
        ELSE CleanUrl(self_path, path)

\* test_server.py lines 8-26: self.path when TestHandler.do_GET calls
\* super().do_GET()
TestPath(self_path) ==
    LET path == DecodedPath(self_path)
    IN  IF path = Path_allapplications \/ path = Path_allapplications_dir
        THEN Path_allapplications_html
        ELSE IF StartsWith(path, Path_allapplications_dir)
             THEN Path_allapplications_html
        ELSE IF path = <<"/">> \/ path = <<>> THEN Path_index_html
        ELSE self_path

\* The pieces the request targets of the model are made of.
PathTokens ==
    {Path_allapplications, Path_allapplications_dir, <<"/">>, <<"a">>,
     <<".", "j", "s">>, <<".", "J", "S">>, Path_BHAR, <<"A", "1">>,
     <<"?", "v">>, <<"%", "0", "A">>}

\* self.path of the request: the pieces of the variable request in a row
RawPath == FlattenSeq(request)

\* One more piece at the end of the request target.  A target that begins
\* with two slashes is left out: the library reads a host name there.
AppendToken(token) ==
    /\ served = NotServed
    /\ test_served = NotServed
    /\ Len(request) < MaxPathTokens
    /\ ~StartsWith(FlattenSeq(Append(request, token)), <<"/", "/">>)
    /\ request' = Append(request, token)
    /\ UNCHANGED <<pc, workbook, sheets_data, all_application_ids, excel_records, excel_df,
                   json_records, result_df, consolidated_df, df, keep_join_key,
                   constant_cols, columns_to_remove, df_cleaned,
                   served, test_served, summaryVars>>

\* MyHTTPRequestHandler.do_GET
do_GET ==
    /\ served = NotServed
    /\ served' = ServerPath(RawPath)
    /\ UNCHANGED <<pc, workbook, sheets_data, all_application_ids, excel_records, excel_df,
                   json_records, result_df, consolidated_df, df, keep_join_key,
                   constant_cols, columns_to_remove, df_cleaned,
                   request, test_served, summaryVars>>

\* TestHandler.do_GET
TestHandler_do_GET ==
    /\ test_served = NotServed
    /\ test_served' = TestPath(RawPath)
    /\ UNCHANGED <<pc, workbook, sheets_data, all_application_ids, excel_records, excel_df,
                   json_records, result_df, consolidated_df, df, keep_join_key,
                   constant_cols, columns_to_remove, df_cleaned,
                   request, served, summaryVars>>

\* Either handler on any request target.
InitServer ==
    /\ pc = "input"
    /\ workbook = <<>>
    /\ NoOutput

NextServer ==
    \/ \E token \in PathTokens : AppendToken(token)
    \/ do_GET
    \/ TestHandler_do_GET

SpecServer == InitServer /\ [][NextServer]_vars

----------------------------------------------------------------------------
(* Properties of the two request handlers. *)

Served == served # NotServed

\* The decoded path of the request.
RequestPath == DecodedPath(RawPath)

\* C12: a request whose decoded path is /allapplications or /allapplications/,
\* or starts with /allapplications/ and has no static-asset extension, is
\* served /allapplications.html by server.py.
C12_AllApplicationsPage ==
    Served =>
        ((\/ RequestPath = Path_allapplications
          \/ RequestPath = Path_allapplications_dir
          \/ /\ StartsWith(RequestPath, Path_allapplications_dir)
             /\ ~is_static_asset(RequestPath))
         => served = Path_allapplications_html)

\* C12's case: a path below /allapplications/ without an extension, served
\* allapplications.html.
C12_Witness ==
    /\ Served
    /\ StartsWith(RequestPath, Path_allapplications_dir)
    /\ RequestPath # Path_allapplications_dir
    /\ ~is_static_asset(RequestPath)
    /\ served = Path_allapplications_html

\* C13 as stated: a request with a static-asset extension is served its own
\* path, with the leading /allapplications/ replaced by / and all that follows
\* unchanged when the decoded path starts with it.
C13_Original ==
    (Served /\ is_static_asset(RequestPath)) =>
        IF StartsWith(RequestPath, Path_allapplications_dir)
        THEN served = <<"/">> \o SubSeq(RequestPath,
                                        Len(Path_allapplications_dir) + 1,
                                        Len(RequestPath))
        ELSE served = RawPath

\* The paths C18 sets aside: /BHAR- and then one or more of A-Z and 0-9.
IsApplicationIdPath(path) ==
    /\ StartsWith(path, Path_BHAR)
    /\ Len(path) > Len(Path_BHAR)
    /\ \A i \in (Len(Path_BHAR) + 1)..Len(path) : path[i] \in IdChars

\* C18 as stated: on a request without static-asset extension whose path is
\* not /BHAR-<ID> the two handlers serve the same path.
C18_Original ==
    (Served /\ test_served # NotServed) =>
        ((~is_static_asset(RequestPath) /\ ~IsApplicationIdPath(RequestPath))
         => served = test_served)

\* A match of ^/BHAR-[A-Z0-9]+$ as Python's re reads it: /BHAR-<ID>, or
\* /BHAR-<ID> and one newline, before which $ matches too.
MatchesIdPattern(path) ==
    \/ IsApplicationIdPath(path)
    \/ /\ path # <<>>
       /\ path[Len(path)] = "\n"
       /\ IsApplicationIdPath(SubSeq(path, 1, Len(path) - 1))

\* The path is /allapplications or lies below it.
UnderAllApplications(path) ==
    path = Path_allapplications \/ StartsWith(path, Path_allapplications_dir)

\* The paths that go to the default page.
IsIndexPath(path) == path = <<"/">> \/ path = <<>> \/ MatchesIdPattern(path)

\* C21: server.py serves /index.html when the decoded path is / or empty or
\* matches ^/BHAR-[A-Z0-9]+$, and serves the request's own path, unchanged,
\* for any other path that has no static-asset extension and is not under
\* /allapplications.
C21_IndexOrUnchanged ==
    Served =>
        /\ IsIndexPath(RequestPath) => served = Path_index_html
        /\ (/\ ~IsIndexPath(RequestPath)
            /\ ~is_static_asset(RequestPath)
            /\ ~UnderAllApplications(RequestPath)) => served = RawPath

\* C21's case: a request for /BHAR-A1 with a query string, served /index.html.
C21_Witness ==
    /\ Served
    /\ IsApplicationIdPath(RequestPath)
    /\ RawPath # RequestPath
    /\ served = Path_index_html

----------------------------------------------------------------------------
(* create_summarized_applications.py *)

\* F(x), with x computed once however often F refers to it.
Bind(x, F(_)) == CHOOSE y \in {F(v) : v \in {x}} : TRUE

\* str.strip() of a text
StripText(text) == Bind(text, Strip)

\* str.split(sep) for a separator of one character
Split(s, sep) ==
    LET pieces(t) ==
            LET cut(at) ==
                    [k \in 1..(Len(at) + 1) |->
                        SubSeq(t, (IF k = 1 THEN 0 ELSE at[k - 1]) + 1,
                                  (IF k > Len(at) THEN Len(t) + 1 ELSE at[k]) - 1)]
            IN  Bind(SelectSeq([i \in 1..Len(t) |-> i], LAMBDA i : t[i] = sep), cut)
    IN  Bind(s, pieces)

\* sep.join(parts)
RECURSIVE Join(_, _)
Join(parts, sep) ==
    IF parts = <<>> THEN <<>>
    ELSE IF Len(parts) = 1 THEN parts[1]
    ELSE parts[1] \o sep \o Join(Tail(parts), sep)

\* The characters of s at the positions that satisfy Keep.
Filter(s, Keep(_)) ==
    LET chars(kept) == [k \in DOMAIN kept |-> s[kept[k]]]
    IN  Bind(SelectSeq([i \in 1..Len(s) |-> i], Keep), chars)

\* re.sub(r'\s+', ' ', text): every run of spaces becomes one space
CollapseSpaces(text) ==
    LET collapsed(t) ==
            Filter(t, LAMBDA i : ~(t[i] = " " /\ i > 1 /\ t[i - 1] = " "))
    IN  Bind(text, collapsed)

\* re.sub(r'\.{2,}', '.', text): every run of periods becomes one period
CollapsePeriods(text) ==
    LET collapsed(t) ==
            Filter(t, LAMBDA i : ~(t[i] = "." /\ i > 1 /\ t[i - 1] = "."))
    IN  Bind(text, collapsed)

\* Lines 19-23: count_words
count_words(text) ==
    LET words(t) ==
            IF t = <<>> \/ t = <<"n", "a", "n">> THEN 0
            ELSE Cardinality({i \in DOMAIN t :
                     t[i] # " " /\ (i = 1 \/ t[i - 1] = " ")})
    IN  Bind(text, words)

\* The number of spaces of text from position i on.
RECURSIVE SpacesFrom(_, _)
SpacesFrom(text, i) ==
    IF i <= Len(text) /\ text[i] = " " THEN 1 + SpacesFrom(text, i + 1) ELSE 0

\* Lines 210-224: academic_starters.  Each pattern is its words, whether
\* [,:]? follows them, and the least number of spaces after that (\s* or \s+).
academic_starters ==
    <<[words |-> <<"h", "e", "r", "e", "i", "n">>,
       punct |-> TRUE, spaces |-> 0],
      [words |-> <<"w", "e", " ", "p", "r", "o", "p", "o", "s", "e">>,
       punct |-> FALSE, spaces |-> 1],
      [words |-> <<"w", "e", " ", "p", "r", "e", "s", "e", "n", "t">>,
       punct |-> FALSE, spaces |-> 1],
      [words |-> <<"w", "e", " ", "d", "e", "v", "e", "l", "o", "p">>,
       punct |-> FALSE, spaces |-> 1],
      [words |-> <<"w", "e", " ", "i", "n", "t", "r", "o", "d", "u", "c", "e">>,
       punct |-> FALSE, spaces |-> 1],
      [words |-> <<"t", "h", "i", "s", " ", "p", "a", "p", "e", "r">>,
       punct |-> FALSE, spaces |-> 1],
      [words |-> <<"t", "h", "i", "s", " ", "s", "t", "u", "d", "y">>,
       punct |-> FALSE, spaces |-> 1],
      [words |-> <<"t", "h", "i", "s", " ", "w", "o", "r", "k">>,
       punct |-> FALSE, spaces |-> 1],
      [words |-> <<"i", "n", " ", "t", "h", "i", "s", " ", "p", "a", "p", "e", "r">>,
       punct |-> TRUE, spaces |-> 0],
      [words |-> <<"i", "n", " ", "t", "h", "i", "s", " ", "s", "t", "u", "d", "y">>,
       punct |-> TRUE, spaces |-> 0],
      [words |-> <<"i", "n", " ", "t", "h", "i", "s", " ", "w", "o", "r", "k">>,
       punct |-> TRUE, spaces |-> 0],
      [words |-> <<"t", "h", "e", " ", "p", "r", "e", "s", "e", "n", "t">>,
       punct |-> FALSE, spaces |-> 1],
      [words |-> <<"t", "h", "e", " ", "c", "u", "r", "r", "e", "n", "t">>,
       punct |-> FALSE, spaces |-> 1]>>

\* The length of the match of a starter pattern at the start of text, without
\* regard to case, or 0 when it does not match.
StarterMatch(text, pattern) ==
    LET n == Len(pattern.words)
        p == IF pattern.punct /\ Len(text) > n /\ text[n + 1] \in {",", ":"}
             THEN n + 1
             ELSE n
        k == SpacesFrom(text, p + 1)
    IN  IF Len(text) >= n /\ Lower(SubSeq(text, 1, n)) = pattern.words
           /\ k >= pattern.spaces
        THEN p + k
        ELSE 0

\* Lines 226-228: every academic starter removed in turn
RECURSIVE RemoveStarters(_, _)
RemoveStarters(text, i) ==
    LET rest(t) ==
            RemoveStarters(
                SubSeq(t, StarterMatch(t, academic_starters[i]) + 1, Len(t)), i + 1)
    IN  IF i > Len(academic_starters) THEN text ELSE Bind(text, rest)

\* Lines 231-240: infinitive_patterns
infinitive_patterns ==
    <<[words |-> <<"t", "o", " ", "d", "e", "v", "e", "l", "o", "p">>, punct |-> FALSE, spaces |-> 1,
       replacement |-> <<"D", "e", "v", "e", "l", "o", "p", "s", " ">>],
      [words |-> <<"t", "o", " ", "c", "r", "e", "a", "t", "e">>, punct |-> FALSE, spaces |-> 1,
       replacement |-> <<"C", "r", "e", "a", "t", "e", "s", " ">>],
      [words |-> <<"t", "o", " ", "b", "u", "i", "l", "d">>, punct |-> FALSE, spaces |-> 1,
       replacement |-> <<"B", "u", "i", "l", "d", "s", " ">>],
      [words |-> <<"t", "o", " ", "d", "e", "s", "i", "g", "n">>, punct |-> FALSE, spaces |-> 1,
       replacement |-> <<"D", "e", "s", "i", "g", "n", "s", " ">>],
      [words |-> <<"t", "o", " ", "p", "r", "o", "v", "i", "d", "e">>, punct |-> FALSE, spaces |-> 1,
       replacement |-> <<"P", "r", "o", "v", "i", "d", "e", "s", " ">>],
      [words |-> <<"t", "o", " ", "o", "f", "f", "e", "r">>, punct |-> FALSE, spaces |-> 1,
       replacement |-> <<"O", "f", "f", "e", "r", "s", " ">>],
      [words |-> <<"t", "o", " ", "e", "n", "a", "b", "l", "e">>, punct |-> FALSE, spaces |-> 1,
       replacement |-> <<"E", "n", "a", "b", "l", "e", "s", " ">>],
      [words |-> <<"t", "o", " ", "d", "e", "l", "i", "v", "e", "r">>, punct |-> FALSE, spaces |-> 1,
       replacement |-> <<"D", "e", "l", "i", "v", "e", "r", "s", " ">>]>>

\* Lines 242-245: the first infinitive pattern that matches is replaced
ReplaceInfinitive(text) ==
    LET replaced(t) ==
            LET matching == {i \in DOMAIN infinitive_patterns :
                                StarterMatch(t, infinitive_patterns[i]) > 0}
            IN  IF matching = {} THEN t
                ELSE LET i == CHOOSE j \in matching : \A k \in matching : j <= k
                         pattern == infinitive_patterns[i]
                     IN  pattern.replacement
                             \o SubSeq(t, StarterMatch(t, pattern) + 1, Len(t))
    IN  Bind(text, replaced)

\* Lines 248-249: the first letter in upper case
Capitalize(text) ==
    LET upper(t) == IF t = <<>> THEN t ELSE <<UpperChar(t[1])>> \o Tail(t)
    IN  Bind(text, upper)

\* Lines 204-256: clean_text
clean_text(text) ==
    LET cleaned(t) ==
            IF t = <<>> THEN t
            ELSE StripText(CollapsePeriods(CollapseSpaces(
                     Capitalize(ReplaceInfinitive(RemoveStarters(t, 1))))))
    IN  Bind(text, cleaned)

Str_nan == <<"n", "a", "n">>

\* Lines 270, 278, 294: the sentences of a field that are longer than 20
\* characters
LongSentences(text) ==
    LET long(pieces) ==
            SelectSeq([i \in DOMAIN pieces |-> Strip(pieces[i])],
                      LAMBDA s : s # <<>> /\ Len(s) > 20)
    IN  Bind(Split(text, "."), long)

\* text[:n]
Truncate(text, n) == SubSeq(text, 1, IF Len(text) < n THEN Len(text) ELSE n)

Str_addresses == <<"a", "d", "d", "r", "e", "s", "s", "e", "s">>
Str_challenge == <<"A", "d", "d", "r", "e", "s", "s", "e", "s", " ", "t", "h", "e", " ", "c", "h", "a", "l", "l", "e", "n", "g", "e", " ", "o", "f", " ">>

\* The first long sentence of a field, cleaned, or the empty text when the field
\* is empty, is 'nan' or has no long sentence.
FirstSentence(field) ==
    LET first(sentences) ==
            IF sentences = <<>> THEN <<>> ELSE clean_text(sentences[1])
        cleaned(t) ==
            IF t = <<>> \/ t = Str_nan THEN <<>> ELSE Bind(LongSentences(t), first)
    IN  Bind(field, cleaned)

\* Lines 268-273: the part of the description that comes from the solution
SolutionPart(solution) ==
    LET part(cleaned_solution) ==
            IF cleaned_solution # <<>> THEN <<cleaned_solution>> ELSE <<>>
    IN  Bind(FirstSentence(solution), part)

\* Lines 276-291: the part that comes from the problem
ProblemPart(problem) ==
    LET flowing(problem_desc) ==
            IF ~StartsWith(Lower(Truncate(problem_desc, Len(Str_addresses))),
                           Str_addresses)
            THEN <<Str_challenge \o Lower(problem_desc)>>
            ELSE <<problem_desc>>
        part(cleaned) ==
            IF cleaned = <<>> THEN <<>>
            ELSE Bind(IF Len(cleaned) > 120
                      THEN Truncate(cleaned, 117) \o <<".", ".", ".">>
                      ELSE cleaned,
                      flowing)
    IN  Bind(FirstSentence(problem), part)

\* Lines 293-300: the part that comes from the innovation
InnovationPart(innovation, parts) ==
    LET part(cleaned) ==
            IF cleaned = <<>> THEN <<>>
            ELSE <<IF Len(cleaned) > 150
                   THEN Truncate(cleaned, 147) \o <<".", ".", ".">>
                   ELSE cleaned>>
    IN  IF Len(parts) < 2 THEN Bind(FirstSentence(innovation), part) ELSE <<>>

\* A paragraph with its final period (lines 310-311, 325-328).
WithPeriod(text) ==
    LET ended(t) == IF t # <<>> /\ ~EndsWith(t, <<".">>) THEN t \o <<".">> ELSE t
    IN  Bind(text, ended)

\* Lines 303-311: full_description
FullDescription(a) ==
    LET joined(first) ==
            Join(first \o InnovationPart(StripText(a.Innovation_Originality), first),
                 <<".", " ">>)
    IN  WithPeriod(StripText(CollapseSpaces(CollapsePeriods(
            Bind(SolutionPart(StripText(a.Solution_Strength))
                     \o ProblemPart(StripText(a.Problem_Clarity)),
                 joined)))))

\* Lines 317-334: the two paragraphs of a description of more than 50 words
Paragraphs(full_description) ==
    LET counted(paras) ==
            [paragraph1 |-> paras[1],
             paragraph2 |-> paras[2],
             word_count |-> count_words(paras[1]) + count_words(paras[2])]
        halves(sentences) ==
            LET mid_point == Len(sentences) \div 2
            IN  Bind(<<WithPeriod(Join(SubSeq(sentences, 1, mid_point),
                                       <<".", " ">>)),
                       WithPeriod(Join(SubSeq(sentences, mid_point + 1,
                                              Len(sentences)), <<".", " ">>))>>,
                     counted)
        split(pieces) ==
            Bind(SelectSeq([i \in DOMAIN pieces |-> Strip(pieces[i])],
                           LAMBDA s : s # <<>>),
                 halves)
    IN  Bind(Split(full_description, "."), split)

\* Lines 258-340: create_about_description
create_about_description(a) ==
    LET about(full_description) ==
            LET described(word_count) ==
                    IF word_count > 50
                    THEN Paragraphs(full_description)
                    ELSE [paragraph1 |-> full_description,
                          paragraph2 |-> None,
                          word_count |-> word_count]
            IN  Bind(count_words(full_description), described)
    IN  Bind(FullDescription(a), about)

Str_IIT == <<"I", "I", "T">>
Str_IIM == <<"I", "I", "M">>
Str_exGoogle == <<"e", "x", "-", "G", "o", "o", "g", "l", "e">>
Str_exAmazon == <<"e", "x", "-", "A", "m", "a", "z", "o", "n">>

\* Lines 360-376: the list credentials of a team member
CredentialList(member) ==
    LET email == Lower(member.Email)
        role_lower == Lower(member.Role)
    IN  (IF member.Email # <<>> /\ Contains(email, <<"@", "i", "i", "t">>)
         THEN <<Str_IIT>> ELSE <<>>)
        \o (IF member.Email # <<>> /\ Contains(email, <<"@", "i", "i", "m">>)
            THEN <<Str_IIM>> ELSE <<>>)
        \o (IF member.Role # <<>> /\ Contains(role_lower, Lower(Str_IIT))
            THEN <<Str_IIT>> ELSE <<>>)
        \o (IF member.Role # <<>> /\ Contains(role_lower, Lower(Str_IIM))
            THEN <<Str_IIM>> ELSE <<>>)
        \o (IF member.Role # <<>>
               /\ (\/ Contains(role_lower, Lower(Str_exGoogle))
                   \/ Contains(role_lower, <<"f", "o", "r", "m", "e", "r", " ", "g", "o", "o", "g", "l", "e">>))
            THEN <<Str_exGoogle>> ELSE <<>>)
        \o (IF member.Role # <<>>
               /\ (\/ Contains(role_lower, Lower(Str_exAmazon))
                   \/ Contains(role_lower, <<"f", "o", "r", "m", "e", "r", " ", "a", "m", "a", "z", "o", "n">>))
            THEN <<Str_exAmazon>> ELSE <<>>)

\* The orders in which the elements of a set can be listed.
Orderings(S) ==
    {seq \in [1..Cardinality(S) -> S] : Range(seq) = S}

\* Line 383: ", ".join(set(credentials)) if credentials else None.  A set of
\* strings is listed in the order of the hashes of its elements, which Python
\* draws anew in every process: every order is an outcome.
CredentialStrings(member) ==
    LET credentials == CredentialList(member)
    IN  IF credentials = <<>> THEN {None}
        ELSE {Join(order, <<",", " ">>) : order \in Orderings(Range(credentials))}

\* x if x else None
OrNone(x) == IF x # <<>> THEN x ELSE None

\* Lines 355-357: a member without a name is skipped
NoName(member) ==
    \/ member.Name = <<>>
    \/ Strip(member.Name) = <<>>
    \/ Lower(member.Name) = Str_nan

\* Lines 342-386: the lists format_team_members can return
RECURSIVE format_team_members(_)
format_team_members(team_members) ==
    IF team_members = <<>> THEN {<<>>}
    ELSE LET member == Head(team_members)
             rest == format_team_members(Tail(team_members))
         IN  IF NoName(member) THEN rest
             ELSE {<<[name |-> member.Name,
                      role |-> OrNone(member.Role),
                      email |-> OrNone(member.Email),
                      mobile |-> None,
                      credentials |-> c]>> \o r :
                   c \in CredentialStrings(member), r \in rest}

\* The fields of free text of an application.
TextFields == {"Solution_Strength", "Problem_Clarity", "Innovation_Originality"}

\* An application of the input file holds each text as the pieces it was
\* written from; the script reads the pieces in a row.
TextOf(a) ==
    [Solution_Strength |-> FlattenSeq(a.Solution_Strength),
     Problem_Clarity |-> FlattenSeq(a.Problem_Clarity),
     Innovation_Originality |-> FlattenSeq(a.Innovation_Originality)]

\* Lines 388-420: the summaries create_summarized_application can return, with
\* the keys that are computed from the fields of the model's applications
create_summarized_application(a) ==
    {[ApplicationId |-> a.ApplicationId,
      About |-> create_about_description(TextOf(a)),
      Team_Members |-> cards] : cards \in format_team_members(a.team_members)}

\* Lines 432-442: the lists main can write for the applications read
RECURSIVE Summaries(_)
Summaries(apps) ==
    IF apps = <<>> THEN {<<>>}
    ELSE {<<s>> \o r : s \in create_summarized_application(Head(apps)),
                        r \in Summaries(Tail(apps))}

\* A run of words: WordsPerChunk times the word "w" and a space.
Chunk == FlattenSeq([i \in 1..WordsPerChunk |-> <<"w", " ">>])

Str_WePropose == <<"W", "e", " ", "p", "r", "o", "p", "o", "s", "e", " ">>

\* The pieces the texts of the model are written from.
TextPieces(field) ==
    CASE field = "Solution_Strength" -> {Chunk, <<".">>, Str_WePropose}
      [] field = "Problem_Clarity" -> {Chunk, <<".">>}
      [] field = "Innovation_Originality" -> {Chunk}

\* The team members of the model's applications.
MemberChoices ==
    {[Name |-> Str_a, Role |-> <<>>, Email |-> <<>>],
     [Name |-> Str_a, Role |-> Str_IIT, Email |-> <<"a", "@", "i", "i", "t">>],
     [Name |-> Str_a, Role |-> Str_IIM, Email |-> <<"a", "@", "i", "i", "t">>],
     [Name |-> Str_nan, Role |-> Str_IIT, Email |-> <<>>]}

\* The number of pieces and members of an application.
ApplicationSize(a) ==
    Len(a.Solution_Strength) + Len(a.Problem_Clarity)
        + Len(a.Innovation_Originality) + Len(a.team_members)

\* One more piece at the end of a text of the application.
AppendText(field, piece) ==
    /\ summarized = <<>>
    /\ ApplicationSize(applications[1]) < MaxApplication
    /\ applications' = [applications EXCEPT ![1][field] = Append(@, piece)]
    /\ UNCHANGED <<pc, workbook, sheets_data, all_application_ids, excel_records, excel_df,
                   json_records, result_df, consolidated_df, df, keep_join_key,
                   constant_cols, columns_to_remove, df_cleaned,
                   serverVars, summarized>>

\* One more team member of the application.
AddMember(member) ==
    /\ summarized = <<>>
    /\ ApplicationSize(applications[1]) < MaxApplication
    /\ Len(applications[1].team_members) < MaxMembers
    /\ applications' = [applications EXCEPT ![1].team_members = Append(@, member)]
    /\ UNCHANGED <<pc, workbook, sheets_data, all_application_ids, excel_records, excel_df,
                   json_records, result_df, consolidated_df, df, keep_join_key,
                   constant_cols, columns_to_remove, df_cleaned,
                   serverVars, summarized>>

\* Lines 422-444: main, one run of the script on the input file
create_summarized_applications ==
    /\ Len(summarized) < MaxRuns
    /\ \E output \in Summaries(applications) :
          summarized' = Append(summarized, output)
    /\ UNCHANGED <<pc, workbook, sheets_data, all_application_ids, excel_records, excel_df,
                   json_records, result_df, consolidated_df, df, keep_join_key,
                   constant_cols, columns_to_remove, df_cleaned,
                   serverVars, applications>>

\* The script, run up to MaxRuns times, on any input file with one application.
InitSummary ==
    /\ pc = "input"
    /\ workbook = <<>>
    /\ sheets_data = <<>>
    /\ all_application_ids = {}
    /\ excel_records = <<>>
    /\ excel_df = EmptyDataFrame
    /\ json_records = <<>>
    /\ result_df = EmptyDataFrame
    /\ consolidated_df = EmptyDataFrame
    /\ df = EmptyDataFrame
    /\ keep_join_key = TRUE
    /\ constant_cols = <<>>
    /\ columns_to_remove = {}
    /\ df_cleaned = EmptyDataFrame
    /\ NoRequest
    /\ applications = <<[ApplicationId |-> Str_a,
                         Solution_Strength |-> <<>>,
                         Problem_Clarity |-> <<>>,
                         Innovation_Originality |-> <<>>,
                         team_members |-> <<>>]>>
    /\ summarized = <<>>

NextSummary ==
    \/ \E field \in TextFields :
          \E piece \in TextPieces(field) : AppendText(field, piece)
    \/ \E member \in MemberChoices : AddMember(member)
    \/ create_summarized_applications

SpecSummary == InitSummary /\ [][NextSummary]_vars

----------------------------------------------------------------------------
(* Properties of create_summarized_applications. *)

\* The About sections written by the runs of the script.
Abouts == {summarized[r][1].About : r \in DOMAIN summarized}

\* The words of a paragraph; a missing paragraph has none.
WordsOf(paragraph) == IF paragraph = None THEN 0 ELSE count_words(paragraph)

\* C14 as stated: every About section has fewer than 100 words, both by its
\* word_count and by the words of its two paragraphs.
C14_Original ==
    \A about \in Abouts :
        /\ about.word_count < WordLimit
        /\ WordsOf(about.paragraph1) + WordsOf(about.paragraph2) < WordLimit

\* C17 as stated: two runs of a script on the same input give the same output.
C17_Original ==
    \A r1, r2 \in DOMAIN summarized : summarized[r1] = summarized[r2]

\* The sentences of a text: its pieces between periods, stripped, the empty
\* ones left out.
SentencesOf(text) ==
    LET kept(pieces) ==
            SelectSeq([i \in DOMAIN pieces |-> Strip(pieces[i])],
                      LAMBDA p : p # <<>>)
    IN  IF text = None THEN <<>> ELSE Bind(Split(text, "."), kept)

\* What C24 asks of the About section made from a full description.
SplitAsStated(about, full_description) ==
    IF count_words(full_description) > 50
    THEN /\ about.paragraph1 \notin {None, <<>>}
         /\ about.paragraph2 \notin {None, <<>>}
         /\ SentencesOf(about.paragraph1) \o SentencesOf(about.paragraph2)
                = SentencesOf(full_description)
    ELSE /\ about.paragraph2 = None
         /\ about.paragraph1 = full_description

\* C24 as stated: a description of more than 50 words is split into two
\* non-empty paragraphs that hold its sentences in their order; a shorter one
\* is paragraph1 whole, with a null paragraph2.
C24_Original ==
    \A r \in DOMAIN summarized :
        LET stated(full_description) ==
                SplitAsStated(summarized[r][1].About, full_description)
        IN  Bind(FullDescription(TextOf(applications[1])), stated)

====
